---- MODULE Spec2Model ----
(***************************************************************************)
(* Model of langchain/retrievers/document_compressors/base.py:             *)
(* BaseDocumentCompressor (the default acompress_documents) and            *)
(* DocumentCompressorPipeline (compress_documents / acompress_documents).  *)
(*                                                                         *)
(* A pipeline object is built once (transformers); a caller then runs      *)
(* compress_documents and, after it, acompress_documents on it with the    *)
(* same documents, query and callbacks.  Every invocation the pipeline (or *)
(* the default acompress_documents) makes is recorded in `calls`, with the *)
(* arguments as they are passed.                                           *)
(***************************************************************************)
EXTENDS Integers, Sequences, FiniteSets, TLC

\* ---------------------------------------------------------------- bounds
MaxStages == 2      \* longest transformers list
MaxDocs   == 1      \* longest list of documents a caller passes

\* ---------------------------------------------------------------- values
DocIds    == {"d1", "d2"}            \* documents a caller may pass
Generated == "d3"                    \* a document a stage makes up itself
Queries   == {"q1", "q2"}
None      == "None"
CallbackValues == {None, "handler"}  \* Optional[Callbacks]
NoArg     == "<not passed>"

SYNC  == "compress_documents"
ASYNC == "acompress_documents"
Methods == {SYNC, ASYNC}

\* document d is relevant to query q (what a query-driven filter keeps)
Relevant(d, q) == (d = "d1" /\ q = "q1") \/ (d = "d2" /\ q = "q2")

RECURSIVE SeqsUpTo(_, _)
SeqsUpTo(S, n) ==
    IF n = 0 THEN {<<>>}
    ELSE LET shorter == SeqsUpTo(S, n - 1)
         IN  shorter \cup {Append(s, x) : s \in shorter, x \in S}

Reverse(s) == [j \in 1..Len(s) |-> s[Len(s) + 1 - j]]
Range(s)   == {s[j] : j \in 1..Len(s)}

\* ------------------------------------------------- the delegate objects
\* A concrete BaseDocumentCompressor subclass: whether its compress_documents
\* override declares `callbacks`, whether it inherits the default
\* acompress_documents or overrides it (with or without `callbacks`), and the
\* function its methods compute.  A subclass that overrides both methods gives
\* them the same parameters.
CompressorFns  == {"filter", "add", "raise"}
TransformerFns == {"reverse", "add", "raise"}
AsyncKinds     == {"inherit", "ownCb", "ownNoCb"}

OwnAsync(syncCb) == IF syncCb THEN "ownCb" ELSE "ownNoCb"
Compressors ==
    {t \in [kind : {"compressor"}, syncCb : BOOLEAN, async : AsyncKinds, fn : CompressorFns] :
        t.async \in {"inherit", OwnAsync(t.syncCb)}}
Transformers ==
    [kind : {"transformer"}, syncCb : {FALSE}, async : {"n/a"}, fn : TransformerFns]
Others ==
    [kind : {"other"}, syncCb : {FALSE}, async : {"n/a"}, fn : {"n/a"}]
Delegates == Compressors \cup Transformers \cup Others

IsCompressor(t)  == t.kind = "compressor"
\* variant: the elif is a plain else, every non-compressor counts as a transformer
IsTransformer_Any(t) == TRUE
IsTransformer(t) == t.kind = "transformer"

\* results of a call
Pending       == [st |-> "pending",  docs |-> <<>>, exc |-> ""]
Returned(d)   == [st |-> "returned", docs |-> d,    exc |-> ""]
Raised(e)     == [st |-> "raised",   docs |-> <<>>, exc |-> e]

\* What the delegate's method body computes once it has been entered.
StageFn(t, docs, q) ==
    CASE t.fn = "filter"  -> Returned(SelectSeq(docs, LAMBDA d : Relevant(d, q)))
      [] t.fn = "reverse" -> Returned(Reverse(docs))
      [] t.fn = "add"     -> Returned(Append(docs, Generated))
      [] OTHER            -> Raised("StageError")

\* inspect.signature(bound method).parameters, as a list of names
Signature(t, m) ==
    CASE m = SYNC  -> IF t.syncCb THEN <<"documents", "query", "callbacks">>
                                  ELSE <<"documents", "query">>
      [] m = ASYNC -> IF t.async = "ownNoCb" THEN <<"documents", "query">>
                                  ELSE <<"documents", "query", "callbacks">>
      [] OTHER     -> <<"documents">>

\* Does the call `c` bind to a method whose parameters (after self) are
\* `params`?  documents and query are required, callbacks has a default.
CallBinds(params, c) ==
    /\ c.npos <= Len(params)
    /\ c.kw \subseteq {params[j] : j \in (c.npos + 1)..Len(params)}
    /\ \A j \in 1..Len(params) :
          params[j] \in {"documents", "query"} => (j <= c.npos \/ params[j] \in c.kw)

\* Outcome of the call `c` made on delegate `t`: a TypeError when the arguments
\* do not bind, else what the method body computes.
CallResult(t, c) ==
    IF CallBinds(Signature(t, c.method), c)
    THEN StageFn(t, c.documents, c.query)
    ELSE Raised("TypeError")

\* ------------------------------------------------------------ the state
VARIABLES
    transformers,   \* DocumentCompressorPipeline.transformers
    in_documents,   \* the documents argument of the caller
    query,          \* the query argument of the caller
    callbacks,      \* the callbacks argument of the caller
    method,         \* the pipeline method that is running or ran last
    pc,             \* position inside that method
    i,              \* 1-based index of _transformer in the for loop
    documents,      \* the local variable `documents`
    calls,          \* every invocation made during the current call, in order
    outcome         \* how each pipeline method ended, once it has

vars == <<transformers, in_documents, query, callbacks, method, pc, i,
          documents, calls, outcome>>

NotRun == [st |-> "notrun", docs |-> <<>>, exc |-> "", at |-> 0]
Ended(r, k) == [st |-> r.st, docs |-> r.docs, exc |-> r.exc, at |-> k]

Init ==
    /\ transformers \in SeqsUpTo(Delegates, MaxStages)
    /\ in_documents \in SeqsUpTo(DocIds, MaxDocs)
    /\ query \in Queries
    /\ callbacks \in CallbackValues
    /\ method = "none"
    /\ pc = "idle"
    /\ i = 0
    /\ documents = <<>>
    /\ calls = <<>>
    /\ outcome = [m \in Methods |-> NotRun]

\* ----------------------------------------------- pieces of the methods
\* variant: callbacks are passed without looking at the signature
AcceptsCallbacks_Always(t, m) == TRUE
\* accepts_callbacks: the method's signature has a parameter named callbacks
AcceptsCallbacks(t, m) == "callbacks" \in Range(Signature(t, m))

\* variant: the query passed on is taken from the current documents
CompressorCall_DerivedQuery(k, m, docs, q, cb, accepts) ==
    [stage |-> k, method |-> m, by |-> "pipeline", documents |-> docs,
     query |-> IF docs # <<>> THEN Head(docs) ELSE q,
     callbacks |-> IF accepts THEN cb ELSE NoArg,
     npos |-> 2, kw |-> IF accepts THEN {"callbacks"} ELSE {}, ret |-> Pending]
\* _transformer.(a)compress_documents(documents, query[, callbacks=callbacks])
CompressorCall(k, m, docs, q, cb, accepts) ==
    [stage |-> k, method |-> m, by |-> "pipeline", documents |-> docs, query |-> q,
     callbacks |-> IF accepts THEN cb ELSE NoArg,
     npos |-> 2, kw |-> IF accepts THEN {"callbacks"} ELSE {}, ret |-> Pending]

\* _transformer.(a)transform_documents(documents)
TransformerCall(k, m, docs) ==
    [stage |-> k, method |-> m, by |-> "pipeline", documents |-> docs, query |-> NoArg,
     callbacks |-> NoArg, npos |-> 1, kw |-> {}, ret |-> Pending]

\* variant: the executor job is given documents and query only
ExecutorCall_WithoutCallbacks(k, docs, q, cb) ==
    [stage |-> k, method |-> SYNC, by |-> "executor", documents |-> docs, query |-> q,
     callbacks |-> NoArg, npos |-> 2, kw |-> {}, ret |-> Pending]
\* run_in_executor(None, self.compress_documents, documents, query, callbacks)
ExecutorCall(k, docs, q, cb) ==
    [stage |-> k, method |-> SYNC, by |-> "executor", documents |-> docs, query |-> q,
     callbacks |-> cb, npos |-> 3, kw |-> {}, ret |-> Pending]

\* variant: the loop steps over every other element
NextTransformer_Skips(k) == k + 2
\* the for loop moves on to the next element of transformers
NextTransformer(k) == k + 1

Last(s) == s[Len(s)]
SetRet(cs, j, r) == [cs EXCEPT ![j].ret = r]

\* --------------------------------- DocumentCompressorPipeline.compress_documents
CallCompress ==
    /\ pc = "idle" /\ outcome[SYNC] = NotRun
    /\ method' = SYNC /\ pc' = "loop" /\ i' = 1
    /\ documents' = in_documents /\ calls' = <<>>
    /\ UNCHANGED <<transformers, in_documents, query, callbacks, outcome>>

CompressCallsCompressor ==
    /\ method = SYNC /\ pc = "loop" /\ i <= Len(transformers)
    /\ IsCompressor(transformers[i])
    /\ calls' = Append(calls, CompressorCall(i, SYNC, documents, query, callbacks,
                                             AcceptsCallbacks(transformers[i], SYNC)))
    /\ pc' = "stage"
    /\ UNCHANGED <<transformers, in_documents, query, callbacks, method, i, documents, outcome>>

CompressCallsTransformer ==
    /\ method = SYNC /\ pc = "loop" /\ i <= Len(transformers)
    /\ ~IsCompressor(transformers[i]) /\ IsTransformer(transformers[i])
    /\ calls' = Append(calls, TransformerCall(i, "transform_documents", documents))
    /\ pc' = "stage"
    /\ UNCHANGED <<transformers, in_documents, query, callbacks, method, i, documents, outcome>>

\* variant: the stage's return value is not assigned to `documents`
CompressStageReturns_DropsResult ==
    /\ method = SYNC /\ pc = "stage"
    /\ LET r == CallResult(transformers[i], Last(calls))
       IN  /\ calls' = SetRet(calls, Len(calls), r)
           /\ IF r.st = "raised"
              THEN /\ outcome' = [outcome EXCEPT ![SYNC] = Ended(r, i)]
                   /\ pc' = "idle"
                   /\ UNCHANGED <<i, documents>>
              ELSE /\ documents' = documents
                   /\ i' = NextTransformer(i)
                   /\ pc' = "loop"
                   /\ UNCHANGED outcome
    /\ UNCHANGED <<transformers, in_documents, query, callbacks, method>>

\* variant: the stage's return value is added to `documents` instead of replacing it
CompressStageReturns_Accumulates ==
    /\ method = SYNC /\ pc = "stage"
    /\ LET r == CallResult(transformers[i], Last(calls))
       IN  /\ calls' = SetRet(calls, Len(calls), r)
           /\ IF r.st = "raised"
              THEN /\ outcome' = [outcome EXCEPT ![SYNC] = Ended(r, i)]
                   /\ pc' = "idle"
                   /\ UNCHANGED <<i, documents>>
              ELSE /\ documents' = documents \o r.docs
                   /\ i' = NextTransformer(i)
                   /\ pc' = "loop"
                   /\ UNCHANGED outcome
    /\ UNCHANGED <<transformers, in_documents, query, callbacks, method>>

CompressStageReturns ==
    /\ method = SYNC /\ pc = "stage"
    /\ LET r == CallResult(transformers[i], Last(calls))
       IN  /\ calls' = SetRet(calls, Len(calls), r)
           /\ IF r.st = "raised"
              THEN /\ outcome' = [outcome EXCEPT ![SYNC] = Ended(r, i)]
                   /\ pc' = "idle"
                   /\ UNCHANGED <<i, documents>>
              ELSE /\ documents' = r.docs
                   /\ i' = NextTransformer(i)
                   /\ pc' = "loop"
                   /\ UNCHANGED outcome
    /\ UNCHANGED <<transformers, in_documents, query, callbacks, method>>

CompressRaisesValueError ==
    /\ method = SYNC /\ pc = "loop" /\ i <= Len(transformers)
    /\ ~IsCompressor(transformers[i]) /\ ~IsTransformer(transformers[i])
    /\ outcome' = [outcome EXCEPT ![SYNC] = Ended(Raised("ValueError"), i)]
    /\ pc' = "idle"
    /\ UNCHANGED <<transformers, in_documents, query, callbacks, method, i, documents, calls>>

CompressReturns ==
    /\ method = SYNC /\ pc = "loop" /\ i > Len(transformers)
    /\ outcome' = [outcome EXCEPT ![SYNC] = Ended(Returned(documents), 0)]
    /\ pc' = "idle"
    /\ UNCHANGED <<transformers, in_documents, query, callbacks, method, i, documents, calls>>

\* -------------------------------- DocumentCompressorPipeline.acompress_documents
CallAcompress ==
    /\ pc = "idle" /\ outcome[SYNC] # NotRun /\ outcome[ASYNC] = NotRun
    /\ method' = ASYNC /\ pc' = "loop" /\ i' = 1
    /\ documents' = in_documents /\ calls' = <<>>
    /\ UNCHANGED <<transformers, in_documents, query, callbacks, outcome>>

AcompressCallsCompressor ==
    /\ method = ASYNC /\ pc = "loop" /\ i <= Len(transformers)
    /\ IsCompressor(transformers[i])
    /\ calls' = Append(calls, CompressorCall(i, ASYNC, documents, query, callbacks,
                                             AcceptsCallbacks(transformers[i], ASYNC)))
    /\ pc' = "await"
    /\ UNCHANGED <<transformers, in_documents, query, callbacks, method, i, documents, outcome>>

AcompressCallsTransformer ==
    /\ method = ASYNC /\ pc = "loop" /\ i <= Len(transformers)
    /\ ~IsCompressor(transformers[i]) /\ IsTransformer(transformers[i])
    /\ calls' = Append(calls, TransformerCall(i, "atransform_documents", documents))
    /\ pc' = "await"
    /\ UNCHANGED <<transformers, in_documents, query, callbacks, method, i, documents, outcome>>

\* The awaited coroutine is the inherited BaseDocumentCompressor.acompress_documents.
InheritsDefault(t) == IsCompressor(t) /\ t.async = "inherit"

\* BaseDocumentCompressor.acompress_documents: hand self.compress_documents to
\* the default executor with the arguments received.
DefaultAcompressRunsInExecutor ==
    /\ method = ASYNC /\ pc = "await" /\ InheritsDefault(transformers[i])
    /\ LET c == Last(calls)
       IN  calls' = Append(calls, ExecutorCall(i, c.documents, c.query, c.callbacks))
    /\ pc' = "executor"
    /\ UNCHANGED <<transformers, in_documents, query, callbacks, method, i, documents, outcome>>

\* The executor thread runs compress_documents; its return value or exception
\* becomes the result of the future.
ExecutorJobEnds ==
    /\ method = ASYNC /\ pc = "executor"
    /\ calls' = SetRet(calls, Len(calls), CallResult(transformers[i], Last(calls)))
    /\ pc' = "resume"
    /\ UNCHANGED <<transformers, in_documents, query, callbacks, method, i, documents, outcome>>

\* what `await run_in_executor(...)` hands back to the awaiting caller
AwaitedResult(future) == future

\* The awaited stage finishes and the pipeline coroutine resumes.
AcompressStageReturns ==
    /\ method = ASYNC
    /\ \/ pc = "await" /\ ~InheritsDefault(transformers[i])
       \/ pc = "resume"
    /\ LET j == IF pc = "resume" THEN Len(calls) - 1 ELSE Len(calls)
           r == IF pc = "resume" THEN AwaitedResult(Last(calls).ret)
                                 ELSE CallResult(transformers[i], calls[j])
       IN  /\ calls' = SetRet(calls, j, r)
           /\ IF r.st = "raised"
              THEN /\ outcome' = [outcome EXCEPT ![ASYNC] = Ended(r, i)]
                   /\ pc' = "idle"
                   /\ UNCHANGED <<i, documents>>
              ELSE /\ documents' = r.docs
                   /\ i' = NextTransformer(i)
                   /\ pc' = "loop"
                   /\ UNCHANGED outcome
    /\ UNCHANGED <<transformers, in_documents, query, callbacks, method>>

AcompressRaisesValueError ==
    /\ method = ASYNC /\ pc = "loop" /\ i <= Len(transformers)
    /\ ~IsCompressor(transformers[i]) /\ ~IsTransformer(transformers[i])
    /\ outcome' = [outcome EXCEPT ![ASYNC] = Ended(Raised("ValueError"), i)]
    /\ pc' = "idle"
    /\ UNCHANGED <<transformers, in_documents, query, callbacks, method, i, documents, calls>>

AcompressReturns ==
    /\ method = ASYNC /\ pc = "loop" /\ i > Len(transformers)
    /\ outcome' = [outcome EXCEPT ![ASYNC] = Ended(Returned(documents), 0)]
    /\ pc' = "idle"
    /\ UNCHANGED <<transformers, in_documents, query, callbacks, method, i, documents, calls>>

\* ------------------------------------------------------- specification
Next ==
    \/ CallCompress
    \/ CompressCallsCompressor
    \/ CompressCallsTransformer
    \/ CompressStageReturns
    \/ CompressRaisesValueError
    \/ CompressReturns
    \/ CallAcompress
    \/ AcompressCallsCompressor
    \/ AcompressCallsTransformer
    \/ DefaultAcompressRunsInExecutor
    \/ ExecutorJobEnds
    \/ AcompressStageReturns
    \/ AcompressRaisesValueError
    \/ AcompressReturns

Spec == Init /\ [][Next]_vars

\* ------------------------------------------------------------ properties
PipelineCalls  == SelectSeq(calls, LAMBDA c : c.by = "pipeline")
ExecutorCalls  == SelectSeq(calls, LAMBDA c : c.by = "executor")
Stages(cs)     == [j \in 1..Len(cs) |-> cs[j].stage]
UpTo(n)        == [j \in 1..n |-> j]
\* the call of pipeline method m has ended and `calls` is its record
EndedCall(m)   == method = m /\ pc = "idle" /\ outcome[m] # NotRun
ReturnedCall(m) == EndedCall(m) /\ outcome[m].st = "returned"

Count(s, d)    == Cardinality({j \in 1..Len(s) : s[j] = d})
SubSet(a, b)   == Range(a) \subseteq Range(b)
SubBag(a, b)   == \A d \in Range(a) : Count(a, d) <= Count(b, d)

\* the left fold of the delegates' functions over the input
RECURSIVE FoldStages(_, _, _)
FoldStages(ts, docs, q) ==
    IF ts = <<>> THEN docs
    ELSE FoldStages(Tail(ts), StageFn(Head(ts), docs, q).docs, q)

\* C1: compress_documents is the left fold of transformers over the input:
\* the first stage receives the caller's documents, every later stage receives
\* exactly what the stage before it returned, and the value returned to the
\* caller is what the last stage returned (the input itself when transformers
\* is empty).
C1_LeftFold ==
    method = SYNC =>
      /\ \A j \in 1..Len(calls) :
            calls[j].documents =
                IF j = 1 THEN in_documents ELSE calls[j - 1].ret.docs
      /\ ReturnedCall(SYNC) =>
            /\ Stages(calls) = UpTo(Len(transformers))
            /\ outcome[SYNC].docs =
                  IF calls = <<>> THEN in_documents ELSE Last(calls).ret.docs
            /\ outcome[SYNC].docs = FoldStages(transformers, in_documents, query)

C1_Witness ==
    /\ ReturnedCall(SYNC)
    /\ Len(calls) = 2
    /\ calls[1].ret.docs # in_documents
    /\ calls[2].ret.docs # calls[1].ret.docs

\* C2: acompress_documents ends as compress_documents does on the same
\* pipeline and arguments: the same returned documents, or an error at the
\* same stage.
C2_SyncAsyncMirror ==
    (outcome[SYNC] # NotRun /\ outcome[ASYNC] # NotRun) =>
        /\ outcome[ASYNC].st = outcome[SYNC].st
        /\ outcome[ASYNC].docs = outcome[SYNC].docs
        /\ outcome[ASYNC].at = outcome[SYNC].at

\* C3: when every stage returned only documents taken from the documents it
\* was given, the documents compress_documents returns are taken from the
\* documents the caller passed (as sets, and also counting repetitions).
C3_FilteredSubset ==
    ReturnedCall(SYNC) =>
      /\ (\A j \in 1..Len(calls) : SubSet(calls[j].ret.docs, calls[j].documents))
            => SubSet(outcome[SYNC].docs, in_documents)
      /\ (\A j \in 1..Len(calls) : SubBag(calls[j].ret.docs, calls[j].documents))
            => SubBag(outcome[SYNC].docs, in_documents)

C3_Witness ==
    /\ ReturnedCall(SYNC)
    /\ Len(calls) = 2
    /\ \A j \in 1..Len(calls) : SubBag(calls[j].ret.docs, calls[j].documents)
    /\ in_documents # <<>>
    /\ outcome[SYNC].docs = <<>>

\* C4: the default acompress_documents calls self.compress_documents exactly
\* once, on the executor, with the documents, query and callbacks it received,
\* and what it hands back to its awaiter is that call's return value or
\* exception.
C4_DefaultAcompressDelegates ==
    \A j \in 1..Len(calls) :
      LET c == calls[j] IN
      (c.by = "pipeline" /\ c.method = ASYNC /\ transformers[c.stage].async = "inherit") =>
        LET ex == {k \in 1..Len(calls) :
                      calls[k].by = "executor" /\ calls[k].stage = c.stage}
        IN  /\ Cardinality(ex) <= 1
            /\ \A k \in ex :
                  /\ k = j + 1
                  /\ calls[k].method = SYNC
                  /\ calls[k].documents = c.documents
                  /\ calls[k].query = c.query
                  /\ calls[k].callbacks = c.callbacks
                  /\ calls[k].npos = 3 /\ calls[k].kw = {}
            /\ c.ret # Pending =>
                  /\ Cardinality(ex) = 1
                  /\ calls[j + 1].ret # Pending
                  /\ c.ret = calls[j + 1].ret

C4_Witness ==
    \E j \in 1..Len(calls) :
      /\ calls[j].by = "pipeline" /\ calls[j].method = ASYNC
      /\ transformers[calls[j].stage].async = "inherit"
      /\ calls[j].callbacks = "handler"
      /\ calls[j].documents # <<>>
      /\ calls[j].ret.st = "returned"
      /\ calls[j].ret.docs # <<>>

\* C5: a pipeline call that completes without error has invoked every element
\* of transformers exactly once, in list order; a stage is never started while
\* an earlier invocation has not returned, and at no time are two stages of
\* the call in progress.
C5_InOrderOneAtATime ==
    /\ Cardinality({calls[j].stage : j \in {k \in 1..Len(calls) : calls[k].ret = Pending}}) <= 1
    /\ \A k \in 1..Len(calls) :
          calls[k].by = "pipeline" => \A j \in 1..(k - 1) : calls[j].ret # Pending
    /\ \A m \in Methods :
          ReturnedCall(m) => Stages(PipelineCalls) = UpTo(Len(transformers))

C5_Witness ==
    /\ ReturnedCall(ASYNC)
    /\ Len(transformers) = 2
    /\ transformers[1].async = "inherit"
    /\ transformers[2].kind = "transformer"

\* C6: in compress_documents a compressor stage is passed the caller's
\* callbacks, unchanged, exactly when its compress_documents declares a
\* callbacks parameter; otherwise it is called with (documents, query) only;
\* a transformer stage is never passed callbacks.
C6_CallbacksForwarding ==
    method = SYNC =>
      \A j \in 1..Len(calls) :
        LET c == calls[j]
            t == transformers[c.stage]
        IN  /\ t.kind = "compressor" =>
                  /\ c.method = SYNC /\ c.npos = 2
                  /\ IF t.syncCb
                     THEN c.kw = {"callbacks"} /\ c.callbacks = callbacks
                     ELSE c.kw = {} /\ c.callbacks = NoArg
            /\ t.kind = "transformer" =>
                  c.npos = 1 /\ c.kw = {} /\ c.callbacks = NoArg

C6_Witness ==
    /\ method = SYNC /\ Len(calls) = 2
    /\ transformers[1].kind = "compressor" /\ ~transformers[1].syncCb
    /\ calls[1].callbacks = NoArg
    /\ transformers[2].kind = "compressor" /\ transformers[2].syncCb
    /\ calls[2].callbacks = "handler"

\* C7: when a pipeline call (sync or async) reaches an element that is neither
\* a compressor nor a transformer, it ends with ValueError at that element:
\* the stages before it were each invoked once, none after it is invoked, and
\* no documents are returned.
C7_UnexpectedTypeRaises ==
    \A m \in Methods :
      EndedCall(m) =>
        \A k \in 1..Len(transformers) :
          ( /\ transformers[k].kind = "other"
            /\ Len(PipelineCalls) >= k - 1
            /\ \A j \in 1..(k - 1) : PipelineCalls[j].ret.st = "returned" )
          => /\ outcome[m] = Ended(Raised("ValueError"), k)
             /\ Stages(PipelineCalls) = UpTo(k - 1)

C7_Witness ==
    /\ EndedCall(ASYNC)
    /\ outcome[ASYNC].exc = "ValueError"
    /\ outcome[ASYNC].at = 2
    /\ Len(calls) > 0

\* C8: every compressor stage is passed exactly the caller's query, a
\* transformer stage is passed the current documents only, and no step of a
\* pipeline call changes transformers or the query.
C8_StageArguments ==
    \A j \in 1..Len(calls) :
      LET c == calls[j]
          t == transformers[c.stage]
      IN  c.by = "pipeline" =>
            /\ t.kind = "compressor" => c.query = query /\ c.npos = 2
            /\ t.kind = "transformer" => c.query = NoArg /\ c.npos = 1 /\ c.kw = {}

C8_QueryAndConfigUntouched ==
    /\ []C8_StageArguments
    /\ [][transformers' = transformers /\ query' = query]_vars

C8_Witness ==
    /\ ReturnedCall(ASYNC)
    /\ Len(transformers) = 2
    /\ transformers[1].kind = "compressor" /\ transformers[1].fn = "filter"
    /\ transformers[2].kind = "transformer"
    /\ in_documents # <<>>
    /\ PipelineCalls[1].ret.docs = <<>>
    /\ PipelineCalls[2].query = NoArg

====
